---- MODULE Spec2Model ----
(***************************************************************************)
(* Quiz service of TheodoraQ: the quiz controller (generateQuiz,           *)
(* getQuizzes, getQuizById, deleteQuiz, updateQuiz, createManualQuiz) over *)
(* the quiz store, and the admin UI (QuizTab, EditQuizModal) that drives   *)
(* it.                                                                     *)
(***************************************************************************)
EXTENDS Integers, Sequences, FiniteSets, TLC

(***************************************************************************)
(* Bounds of the model.                                                    *)
(***************************************************************************)
\* number of identifiers the store can ever assign
MaxQuizzes == 2

(***************************************************************************)
(* Values.                                                                 *)
(***************************************************************************)
\* a JSON object is a function from the names of the fields it has
NoFields == [f \in {} |-> 0]
Has(obj, f) == f \in DOMAIN obj
Field(f, v) == [g \in {f} |-> v]

\* null
Null == [null |-> TRUE]
IsNull(v) == Has(v, "null")

\* req.user?.id || req.user?._id: the identity the auth middleware supplies,
\* NoUser (undefined) when there is none
Users == {"admin1", "admin2"}
NoUser == ""
Requesters == Users \cup {NoUser}

QuizIds == 1..MaxQuizzes

\* one well-formed question, for the request bodies of the service
SampleQuestion == [text |-> "q", type |-> "short_answer", options |-> <<>>, answer |-> "a"]

Titles == {"", "T"}
QuestionLists == {<<>>, <<SampleQuestion>>}
\* 10 is the time limit the edit modal sends with every save
TimeLimits == {0, 10}

\* fields of a body that the handlers do not read: an owner, and the weightage
\* the edit modal sends with every save
OtherFields == [adminId |-> "admin2", weightage |-> 50, weightageType |-> "percentage"]

\* the bodies of PUT /quiz/:id and POST /quiz/manual: each field present or not,
\* and bodies that carry the other fields too
QuizBodies ==
  { t @@ q @@ l :
      t \in {NoFields} \cup {Field("title", v) : v \in Titles},
      q \in {NoFields} \cup {Field("questions", v) : v \in QuestionLists},
      l \in {NoFields} \cup {Field("timeLimit", v) : v \in TimeLimits} }
  \cup { OtherFields,
         [title |-> "T", questions |-> <<SampleQuestion>>, timeLimit |-> 10]
           @@ OtherFields }

Min2(a, b) == IF a < b THEN a ELSE b
Max2(a, b) == IF a > b THEN a ELSE b

\* numberOfQuestions as the client may send it: a number, or text that is no number
Num(n) == [num |-> n]
NotANumber == [nan |-> TRUE]
IsNum(v) == "num" \in DOMAIN v

\* the bodies of POST /quiz/generate
Prompts == {"", "topic"}
Counts == {Num(1), Num(2), NotANumber}
GenerateBodies ==
  { p @@ n @@ Field("quizType", "mcq") :
      p \in {NoFields} \cup {Field("prompt", v) : v \in Prompts},
      n \in {NoFields} \cup {Field("numberOfQuestions", v) : v \in Counts} }

(***************************************************************************)
(* State.                                                                  *)
(***************************************************************************)
VARIABLES
  store,    \* the Quiz collection: identifier -> document, for the documents it holds
  nextId,   \* the next identifier the store assigns (identifiers are never reused)
  req,      \* the HTTP request being handled, NoFields when none
  res,      \* the response on its way to the client, NoFields when none
  provider, \* the call to the text-generation provider made for the request: its
            \* state "idle" (none made), "pending", "threw" or "returned", and the
            \* text it returned
  tab,      \* the state of the QuizTab component
  modal,    \* the state of the EditQuizModal component, NoFields while it is not mounted
  net,      \* the fetches of the page that are under way, each with its response
            \* once the server has answered
  candidate, \* the parsed candidate quiz (aiJson) the normalizer is given, run alone
  validatedQuestions, \* what the normalizer returned or threw, Null before it has run
  requested, \* the request body the question count is computed from, computed alone
  effective, \* the questionCount computed from it, 0 before it is computed
  editor,    \* the questions of the edit modal as JavaScript holds them: the list of
             \* the question objects, the objects and their arrays by identity, and
             \* the number of edits made
  readers    \* the file readers that are loading an image, each with the questions,
             \* the index and the field its callback closed over

ui == <<tab, modal, net>>
count == <<requested, effective>>
edit == <<editor, readers>>
alone == <<candidate, validatedQuestions, requested, effective, editor, readers>>
vars == <<store, nextId, req, res, provider, tab, modal, net, candidate, validatedQuestions,
          requested, effective, editor, readers>>

(***************************************************************************)
(* The quiz store (the Quiz model).                                        *)
(***************************************************************************)
\* Quiz.findById(id): the document, or null
Exists(st, id) == id \in DOMAIN st

\* new Quiz({...}).save(): the store assigns the identifier
Insert(st, id, doc) == (id :> doc) @@ st

\* quiz.save() of a loaded document
Replace(st, id, doc) == [st EXCEPT ![id] = doc]

\* Quiz.findByIdAndDelete(id)
Remove(st, id) == [i \in DOMAIN st \ {id} |-> st[i]]

(***************************************************************************)
(* Responses.                                                              *)
(***************************************************************************)
\* mutant: a failure is a status and a message alone
FailureUnstructured(status, message) ==
  [status |-> status, message |-> message]
Failure(status, message) ==
  [status |-> status, success |-> FALSE, message |-> message]

Outcome(st, nid, r) == [store |-> st, nextId |-> nid, res |-> r]

(***************************************************************************)
(* Handlers of the quiz controller, as functions of the store and the      *)
(* request.                                                                *)
(***************************************************************************)
\* mutant: the ownership check compares the document with itself
NotOwnerUnchecked(quiz, adminId) == quiz.adminId # quiz.adminId

\* quiz.adminId.toString() !== adminId.toString()
NotOwner(quiz, adminId) == quiz.adminId # adminId

\* GET /api/quiz/:id
GetQuizById(st, nid, r) ==
  IF ~Exists(st, r.id)
    THEN Outcome(st, nid, Failure(404, "Quiz not found"))
  ELSE IF r.user = NoUser  \* adminId.toString() of undefined throws: the catch block
    THEN Outcome(st, nid, Failure(500, "Failed to fetch quiz"))
  ELSE IF NotOwner(st[r.id], r.user)
    THEN Outcome(st, nid, Failure(403, "Not authorized to view this quiz"))
  ELSE Outcome(st, nid, [status |-> 200, success |-> TRUE, data |-> st[r.id]])

\* mutant: the owner is told the quiz is deleted and the document stays
DeleteQuizKeeps(st, nid, r) ==
  IF ~Exists(st, r.id)
    THEN Outcome(st, nid, Failure(404, "Quiz not found"))
  ELSE IF r.user = NoUser
    THEN Outcome(st, nid, Failure(500, "Failed to delete quiz"))
  ELSE IF NotOwner(st[r.id], r.user)
    THEN Outcome(st, nid, Failure(403, "Not authorized to delete this quiz"))
  ELSE Outcome(st, nid,
               [status |-> 200, success |-> TRUE, message |-> "Quiz deleted successfully"])

\* DELETE /api/quiz/:id
DeleteQuiz(st, nid, r) ==
  IF ~Exists(st, r.id)
    THEN Outcome(st, nid, Failure(404, "Quiz not found"))
  ELSE IF r.user = NoUser
    THEN Outcome(st, nid, Failure(500, "Failed to delete quiz"))
  ELSE IF NotOwner(st[r.id], r.user)
    THEN Outcome(st, nid, Failure(403, "Not authorized to delete this quiz"))
  ELSE Outcome(Remove(st, r.id), nid,
               [status |-> 200, success |-> TRUE, message |-> "Quiz deleted successfully"])

\* mutant: the three fields are assigned whether the body has them or not
ApplyPatchWhole(quiz, body) ==
  [quiz EXCEPT
     !.title = IF Has(body, "title") THEN body.title ELSE "",
     !.questions = IF Has(body, "questions") THEN body.questions ELSE <<>>,
     !.timeLimit = IF Has(body, "timeLimit") THEN body.timeLimit ELSE 10]

\* if (x !== undefined) quiz.x = x, for title, questions and timeLimit
ApplyPatch(quiz, body) ==
  [quiz EXCEPT
     !.title = IF Has(body, "title") THEN body.title ELSE @,
     !.questions = IF Has(body, "questions") THEN body.questions ELSE @,
     !.timeLimit = IF Has(body, "timeLimit") THEN body.timeLimit ELSE @]

\* mutant: the fields are assigned and saved before the ownership check
UpdateQuizSaveFirst(st, nid, r) ==
  IF ~Exists(st, r.id)
    THEN Outcome(st, nid, Failure(404, "Quiz not found"))
  ELSE IF r.user = NoUser
    THEN Outcome(st, nid, Failure(500, "Failed to update quiz"))
  ELSE IF NotOwner(st[r.id], r.user)
    THEN Outcome(Replace(st, r.id, ApplyPatch(st[r.id], r.body)), nid,
                 Failure(403, "Not authorized to edit this quiz"))
  ELSE LET quiz == ApplyPatch(st[r.id], r.body)
       IN  Outcome(Replace(st, r.id, quiz), nid,
                   [status |-> 200, success |-> TRUE, data |-> quiz,
                    message |-> "Quiz updated successfully"])

\* PUT /api/quiz/:id
UpdateQuiz(st, nid, r) ==
  IF ~Exists(st, r.id)
    THEN Outcome(st, nid, Failure(404, "Quiz not found"))
  ELSE IF r.user = NoUser
    THEN Outcome(st, nid, Failure(500, "Failed to update quiz"))
  ELSE IF NotOwner(st[r.id], r.user)
    THEN Outcome(st, nid, Failure(403, "Not authorized to edit this quiz"))
  ELSE LET quiz == ApplyPatch(st[r.id], r.body)
       IN  Outcome(Replace(st, r.id, quiz), nid,
                   [status |-> 200, success |-> TRUE, data |-> quiz,
                    message |-> "Quiz updated successfully"])

\* mutant: the validation forgets the length of the list: !title || !questions
CreateInvalidNoLength(body) ==
  IF ~Has(body, "title") THEN TRUE
  ELSE IF body.title = "" THEN TRUE
  ELSE ~Has(body, "questions")

\* !title || !questions || questions.length === 0
CreateInvalid(body) ==
  IF ~Has(body, "title") THEN TRUE
  ELSE IF body.title = "" THEN TRUE
  ELSE IF ~Has(body, "questions") THEN TRUE
  ELSE Len(body.questions) = 0

\* timeLimit || 10
DefaultTimeLimit == 10
CreateTimeLimit(body) ==
  IF Has(body, "timeLimit") /\ body.timeLimit # 0 THEN body.timeLimit ELSE DefaultTimeLimit

\* new Quiz({title, questions, timeLimit: timeLimit || 10, adminId}); the documents
\* are stamped in the order they are created, as the identifiers are
\* mutant: the owner is taken from the body when the body names one
NewQuizOwnerFromBody(id, body, adminId) ==
  [_id |-> id, title |-> body.title, questions |-> body.questions,
   timeLimit |-> IF Has(body, "timeLimit") /\ body.timeLimit # 0 THEN body.timeLimit ELSE 10,
   adminId |-> IF Has(body, "adminId") THEN body.adminId ELSE adminId,
   createdAt |-> id]
NewQuiz(id, body, adminId) ==
  [_id |-> id, title |-> body.title, questions |-> body.questions,
   timeLimit |-> CreateTimeLimit(body), adminId |-> adminId, createdAt |-> id]

\* mutant: the document is built from the weightage of the body too
CreateManualQuizWeighted(st, nid, r) ==
  IF CreateInvalid(r.body)
    THEN Outcome(st, nid, Failure(400, "Title and at least one question are required"))
  ELSE IF r.user = NoUser
    THEN Outcome(st, nid, Failure(401, "You must be logged in to create a quiz"))
  ELSE LET newQuiz == NewQuiz(nid, r.body, r.user)
                      @@ [f \in DOMAIN r.body \cap {"weightage", "weightageType"} |-> r.body[f]]
       IN  Outcome(Insert(st, nid, newQuiz), nid + 1,
                   [status |-> 201, success |-> TRUE, data |-> newQuiz,
                    message |-> "Quiz created successfully"])

\* POST /api/quiz/manual
CreateManualQuiz(st, nid, r) ==
  IF CreateInvalid(r.body)
    THEN Outcome(st, nid, Failure(400, "Title and at least one question are required"))
  ELSE IF r.user = NoUser
    THEN Outcome(st, nid, Failure(401, "You must be logged in to create a quiz"))
  ELSE LET newQuiz == NewQuiz(nid, r.body, r.user)
       IN  Outcome(Insert(st, nid, newQuiz), nid + 1,
                   [status |-> 201, success |-> TRUE, data |-> newQuiz,
                    message |-> "Quiz created successfully"])

\* the identifiers of a set of documents, the most recently created first
RECURSIVE NewestFirst(_, _)
NewestFirst(st, ids) ==
  IF ids = {} THEN <<>>
  ELSE LET newest == CHOOSE i \in ids : \A j \in ids : st[j].createdAt <= st[i].createdAt
       IN  <<newest>> \o NewestFirst(st, ids \ {newest})

\* .select('title questions createdAt updatedAt'): the fields of a listed quiz
\* (the documents of the store carry no updatedAt)
Summary(quiz) ==
  [_id |-> quiz._id, title |-> quiz.title, questions |-> quiz.questions,
   createdAt |-> quiz.createdAt]

\* the query strings of GET /api/quiz: none, ?limit=0, ?limit=1 and ?limit=abc
ListQueries == {NoFields, [limit |-> Num(0)], [limit |-> Num(1)], [limit |-> NotANumber]}

\* req.query.limit ? parseInt(req.query.limit) : null, 0 for no limit
QueryLimit(query) ==
  IF Has(query, "limit") /\ IsNum(query.limit) THEN query.limit.num ELSE 0

\* GET /api/quiz; the request's body stands for req.query
GetQuizzes(st, nid, r) ==
  IF r.user = NoUser
    THEN Outcome(st, nid, Failure(401, "You must be logged in to view quizzes"))
  ELSE LET owned == {id \in DOMAIN st : st[id].adminId = r.user}
           sorted == NewestFirst(st, owned)
           limit == QueryLimit(r.body)
           shown == IF limit > 0 THEN SubSeq(sorted, 1, Min2(Len(sorted), limit)) ELSE sorted
       IN  Outcome(st, nid, [status |-> 200, success |-> TRUE,
                             data |-> [i \in 1..Len(shown) |-> Summary(st[shown[i]])]])

(***************************************************************************)
(* generateQuiz: the request checks, the provider's text, the parse and    *)
(* the repair of the questions.                                            *)
(***************************************************************************)
\* parseInt(numberOfQuestions): the number, or NaN; numberOfQuestions = 5 when missing
DefaultCount == 5
MinCount == 1
MaxCount == 50

\* Math.max(1, Math.min(50, parseInt(numberOfQuestions) || 5))
QuestionCount(body) ==
  LET given == IF Has(body, "numberOfQuestions") THEN body.numberOfQuestions
               ELSE Num(DefaultCount)
      parsed == IF IsNum(given) /\ given.num # 0 THEN given.num ELSE DefaultCount
  IN  Max2(MinCount, Min2(MaxCount, parsed))

\* the provider's text is a sequence of tokens: the fence markers, the braces,
\* prose, and the text between the braces, which stands for a JSON object's fields
FenceJson == "<fence>json"
Fence == "<fence>"
Prose == "w"

Includes(seq, x) == \E i \in 1..Len(seq) : seq[i] = x

\* text.replace(/<fence>json/g, '').replace(/<fence>/g, ''), <fence> the three backquotes
StripFences(text) == SelectSeq(text, LAMBDA c : c \notin {FenceJson, Fence})

\* text.indexOf(c), text.lastIndexOf(c): positions from 1, 0 when there is none
IndexOf(text, c) ==
  IF Includes(text, c) THEN CHOOSE i \in 1..Len(text) :
        text[i] = c /\ \A j \in 1..(i - 1) : text[j] # c
  ELSE 0
LastIndexOf(text, c) ==
  IF Includes(text, c) THEN CHOOSE i \in 1..Len(text) :
        text[i] = c /\ \A j \in (i + 1)..Len(text) : text[j] # c
  ELSE 0

\* text.substring(from, to) for positions from 1, to inclusive; substring swaps
\* its arguments when the start lies after the end
Substring(text, from, to) ==
  IF from <= to + 1 THEN SubSeq(text, from, to) ELSE SubSeq(text, to + 1, from - 1)

\* text.substring(0, 500)
RawTextLimit == 500
\* mutant: the whole text is sent back
RawTextWhole(text) == text
RawText(text) == SubSeq(text, 1, Min2(Len(text), RawTextLimit))

\* the objects the provider's JSON may denote
McqQuestion(options, answer) ==
  [text |-> "q", type |-> "mcq", options |-> options, answer |-> answer]
TrueFalseQuestion(options, answer) ==
  [text |-> "q", type |-> "true_false", options |-> options, answer |-> answer]
ShortQuestion(options, answer) ==
  [text |-> "q", type |-> "short_answer", options |-> options, answer |-> answer]

Payloads ==
  [ good |-> [title |-> "T",
              questions |-> <<McqQuestion(<<"a", "b", "c", "d">>, "a")>>],
    two  |-> [title |-> "T",
              questions |-> <<McqQuestion(<<"a", "b">>, "z"),
                              TrueFalseQuestion(<<"Yes", "No">>, "Yes")>>],
    wide |-> [title |-> "T",
              questions |-> <<McqQuestion(<<"a", "b", "c", "d", "e">>, "a"),
                              TrueFalseQuestion(<<"True", "Maybe">>, "True")>>],
    noQuestions |-> [title |-> "T"],
    noOptions |-> [title |-> "T",
                   questions |-> <<[text |-> "q", type |-> "mcq", answer |-> "a"]>>] ]

\* JSON.parse(jsonText): an object, or a SyntaxError
ParseError == [error |-> "SyntaxError"]
JSONParse(jsonText) ==
  IF jsonText = <<"{", "}">> THEN NoFields
  ELSE IF Len(jsonText) = 3 /\ jsonText[1] = "{" /\ jsonText[3] = "}"
          /\ jsonText[2] \in DOMAIN Payloads
    THEN Payloads[jsonText[2]]
  ELSE ParseError
IsParseError(v) == "error" \in DOMAIN v

\* a text of one character more than an excerpt holds
LongProse == [i \in 1..(RawTextLimit + 1) |-> Prose]

\* what the provider may answer
ProviderTexts ==
  { <<"{", "good", "}">>,
    <<FenceJson, "{", "good", "}", Fence>>,
    <<Prose, "{", "two", "}", Prose>>,
    <<"{", "wide", "}">>,
    <<"{", "noQuestions", "}">>,
    <<"{", "noOptions", "}">>,
    <<"{", "}">>,
    <<Prose>>,
    <<"{", Prose>>,
    <<"}", Prose, "{">>,
    <<"{", "good", "}", "}">>,
    LongProse,
    <<Prose, "{">> \o LongProse \o <<"}">> }

\* q.options[0] || 'No answer provided'
FirstOption(options) ==
  IF Len(options) > 0 /\ options[1] # "" THEN options[1] ELSE "No answer provided"

\* while (q.options.length < 4) q.options.push('Option ' + (q.options.length + 1))
McqOptions == 4
RECURSIVE PadOptions(_)
PadOptions(options) ==
  IF Len(options) < McqOptions
    THEN PadOptions(Append(options, "Option " \o ToString(Len(options) + 1)))
    ELSE options

\* the answer of a choice question is replaced when it is none of the options
RepairAnswer(q) ==
  IF q.type \in {"mcq", "true_false"} /\ ~Includes(q.options, q.answer)
    THEN [q EXCEPT !.answer = FirstOption(q.options)]
    ELSE q

\* mutant: an mcq question is given 4 options exactly
RepairMcqFour(q) ==
  IF q.type = "mcq"
    THEN [q EXCEPT !.options = SubSeq(PadOptions(q.options), 1, McqOptions)]
    ELSE q
\* an mcq question with fewer than 4 options is padded
RepairMcq(q) ==
  IF q.type = "mcq" /\ Len(q.options) < McqOptions
    THEN [q EXCEPT !.options = PadOptions(q.options)]
    ELSE q

\* a true_false question without the option "True" gets the options True, False
RepairTrueFalse(q) ==
  IF q.type = "true_false" /\ ~Includes(q.options, "True")
    THEN [q EXCEPT !.options = <<"True", "False">>,
                   !.answer = IF q.answer \in {"True", "False"} THEN q.answer ELSE "True"]
    ELSE q

\* the callback of aiJson.questions.map
ValidateQuestion(q) == RepairTrueFalse(RepairMcq(RepairAnswer(q)))

\* q.options.includes and q.options.length of a question without options throw
QuestionThrows(q) == q.type \in {"mcq", "true_false"} /\ ~Has(q, "options")

\* aiJson.questions.length, and the map, throw a TypeError on a missing list
NormalizeThrows(aiJson) ==
  IF ~Has(aiJson, "questions") THEN TRUE
  ELSE \E i \in 1..Len(aiJson.questions) : QuestionThrows(aiJson.questions[i])

\* mutant: the questions are returned last first
ValidatedQuestionsReversed(aiJson) ==
  [i \in 1..Len(aiJson.questions) |->
     ValidateQuestion(aiJson.questions[Len(aiJson.questions) + 1 - i])]
ValidatedQuestions(aiJson) ==
  [i \in 1..Len(aiJson.questions) |-> ValidateQuestion(aiJson.questions[i])]

Plural(n) == IF n > 1 THEN "s" ELSE ""

\* mutant: more questions than requested count as a match
ResponseMessageNoExtra(actualCount, questionCount) ==
  IF actualCount < questionCount
    THEN "AI generated " \o ToString(actualCount) \o " questions (requested "
         \o ToString(questionCount) \o "). " \o ToString(questionCount - actualCount)
         \o " question" \o Plural(questionCount - actualCount)
         \o " short. You can add more questions manually or regenerate."
  ELSE "Quiz generated successfully. Review and save when ready."

\* the advisory message of a generation
ResponseMessage(actualCount, questionCount) ==
  IF actualCount < questionCount
    THEN "AI generated " \o ToString(actualCount) \o " questions (requested "
         \o ToString(questionCount) \o "). " \o ToString(questionCount - actualCount)
         \o " question" \o Plural(questionCount - actualCount)
         \o " short. You can add more questions manually or regenerate."
  ELSE IF actualCount > questionCount
    THEN "AI generated " \o ToString(actualCount) \o " questions (requested "
         \o ToString(questionCount) \o "). " \o ToString(actualCount - questionCount)
         \o " extra question" \o Plural(actualCount - questionCount)
         \o ". You can remove extras if needed."
  ELSE "Quiz generated successfully. Review and save when ready."

\* mutant: the requester's identity is not checked
GenerateChecksNoIdentity(r, apiKey) ==
  IF ~Has(r.body, "prompt") THEN Failure(400, "Prompt is required")
  ELSE IF r.body.prompt = "" THEN Failure(400, "Prompt is required")
  ELSE IF ~apiKey THEN Failure(500, "Gemini API key is not configured")
  ELSE NoFields

\* generateQuiz up to the call of the provider: the response it ends with, or
\* NoFields when it goes on to call the provider
GenerateChecks(r, apiKey) ==
  IF ~Has(r.body, "prompt") THEN Failure(400, "Prompt is required")
  ELSE IF r.body.prompt = "" THEN Failure(400, "Prompt is required")
  ELSE IF r.user = NoUser THEN Failure(401, "You must be logged in to create a quiz")
  ELSE IF ~apiKey THEN Failure(500, "Gemini API key is not configured")
  ELSE NoFields

\* mutant: a placeholder quiz is returned when the provider fails
ProviderFallbackQuiz ==
  [status |-> 200, success |-> TRUE,
   data |-> [title |-> "Sample Quiz", questions |-> <<SampleQuestion>>, timeLimit |-> 10],
   message |-> "Quiz generated successfully. Review and save when ready.",
   preview |-> TRUE]

\* generateQuiz after the provider threw
ProviderFailure ==
  [status |-> 500, success |-> FALSE,
   message |-> "Failed to connect to AI service. Please check your API key and try again.",
   error |-> "apiError"]

\* generateQuiz after the provider returned raw
GenerateFromText(r, raw) ==
  LET text == StripFences(raw)
      firstBrace == IndexOf(text, "{")
      lastBrace == LastIndexOf(text, "}")
      jsonText == Substring(text, firstBrace, lastBrace)
      aiJson == JSONParse(jsonText)
      questionCount == QuestionCount(r.body)
  IN  IF firstBrace = 0 \/ lastBrace = 0
        THEN [status |-> 500, success |-> FALSE,
              message |-> "AI response did not contain valid JSON",
              rawText |-> RawText(text)]
      ELSE IF IsParseError(aiJson)
        THEN [status |-> 500, success |-> FALSE,
              message |-> "AI response was not valid JSON.",
              rawText |-> RawText(jsonText), error |-> aiJson.error]
      ELSE IF NormalizeThrows(aiJson)
        THEN [status |-> 500, success |-> FALSE,
              message |-> "Failed to generate quiz", error |-> "TypeError"]
      ELSE LET questions == ValidatedQuestions(aiJson)
           IN  [status |-> 200, success |-> TRUE,
                data |-> (IF Has(aiJson, "title") THEN Field("title", aiJson.title)
                          ELSE NoFields)
                         @@ [questions |-> questions, timeLimit |-> 10],
                message |-> ResponseMessage(Len(questions), questionCount),
                preview |-> TRUE]

\* the object parsed from the provider's text raw, when it has both braces
AiJson(raw) ==
  LET text == StripFences(raw)
  IN  JSONParse(Substring(text, IndexOf(text, "{"), LastIndexOf(text, "}")))

\* mutant: the generated quiz is saved to the database
GenerateQuizSaving(st, nid, r, response) ==
  IF response.success
    THEN Outcome(Insert(st, nid, [_id |-> nid, adminId |-> r.user] @@ response.data),
                 nid + 1, response)
    ELSE Outcome(st, nid, response)

\* the store after generateQuiz: the quiz is returned WITHOUT saving to database
GenerateQuiz(st, nid, r, response) == Outcome(st, nid, response)

(***************************************************************************)
(* The service: requests arrive one at a time and are handled.             *)
(***************************************************************************)
Idle == DOMAIN req = {}
Answered == DOMAIN res # {}

Request(op, user, id, body) == [op |-> op, user |-> user, id |-> id, body |-> body]

\* any client sends any request
Arrive ==
  /\ Idle /\ ~Answered
  /\ \E user \in Requesters :
       \/ \E id \in QuizIds : req' = Request("getQuizById", user, id, NoFields)
       \/ \E id \in QuizIds : req' = Request("deleteQuiz", user, id, NoFields)
       \/ \E id \in QuizIds, body \in QuizBodies : req' = Request("updateQuiz", user, id, body)
       \/ \E body \in QuizBodies : req' = Request("createManualQuiz", user, 0, body)
       \/ \E body \in GenerateBodies : req' = Request("generateQuiz", user, 0, body)
       \/ \E query \in ListQueries : req' = Request("getQuizzes", user, 0, query)
  /\ UNCHANGED <<store, nextId, res, provider>>
  /\ UNCHANGED <<ui, alone>>

Respond(out) ==
  /\ store' = out.store
  /\ nextId' = out.nextId
  /\ res' = out.res
  /\ req' = NoFields
  /\ UNCHANGED <<ui, alone>>

getQuizzes ==
  /\ ~Idle /\ req.op = "getQuizzes"
  /\ Respond(GetQuizzes(store, nextId, req))
  /\ UNCHANGED provider

getQuizById ==
  /\ ~Idle /\ req.op = "getQuizById"
  /\ Respond(GetQuizById(store, nextId, req))
  /\ UNCHANGED provider

deleteQuiz ==
  /\ ~Idle /\ req.op = "deleteQuiz"
  /\ Respond(DeleteQuiz(store, nextId, req))
  /\ UNCHANGED provider

updateQuiz ==
  /\ ~Idle /\ req.op = "updateQuiz"
  /\ Respond(UpdateQuiz(store, nextId, req))
  /\ UNCHANGED provider

createManualQuiz ==
  /\ ~Idle /\ req.op = "createManualQuiz"
  /\ CreateManualQuiz(store, nextId, req).res.status = 201 => nextId <= MaxQuizzes
  /\ Respond(CreateManualQuiz(store, nextId, req))
  /\ UNCHANGED provider

\* generateQuiz, up to the await of the provider's answer
generateQuiz ==
  /\ ~Idle /\ req.op = "generateQuiz" /\ provider.state = "idle"
  /\ \E apiKey \in BOOLEAN :
       LET early == GenerateChecks(req, apiKey)
       IN  IF DOMAIN early # {}
             THEN /\ Respond(GenerateQuiz(store, nextId, req, early))
                  /\ UNCHANGED provider
             ELSE /\ provider' = [state |-> "pending"]
                  /\ UNCHANGED <<store, nextId, req, res>>
                  /\ UNCHANGED <<ui, alone>>

\* generateQuiz, from the provider's answer on: model.generateContent threw
generateQuizCatch ==
  /\ ~Idle /\ req.op = "generateQuiz" /\ provider.state = "pending"
  /\ provider' = [state |-> "threw"]
  /\ Respond(GenerateQuiz(store, nextId, req, ProviderFailure))

\* generateQuiz, from the provider's answer on: response.text() returned
generateQuizResume ==
  /\ ~Idle /\ req.op = "generateQuiz" /\ provider.state = "pending"
  /\ \E raw \in ProviderTexts :
       /\ provider' = [state |-> "returned", text |-> raw]
       /\ Respond(GenerateQuiz(store, nextId, req, GenerateFromText(req, raw)))

\* the client reads the response
Receive ==
  /\ Answered
  /\ res' = NoFields
  /\ provider' = [state |-> "idle"]
  /\ UNCHANGED <<store, nextId, req>>
  /\ UNCHANGED <<ui, alone>>

\* the store is empty and no request is under way
ServiceInit ==
  /\ store = NoFields
  /\ nextId = 1
  /\ req = NoFields
  /\ res = NoFields
  /\ provider = [state |-> "idle"]

\* no function is run alone
CountIdle ==
  /\ requested = NoFields
  /\ effective = 0
\* no quiz is being edited
EditIdle ==
  /\ editor = NoFields
  /\ readers = <<>>
NormIdle ==
  /\ candidate = NoFields
  /\ validatedQuestions = Null
  /\ CountIdle
  /\ EditIdle

\* the service alone: no page is open
Init ==
  /\ ServiceInit
  /\ tab = NoFields
  /\ modal = NoFields
  /\ net = <<>>
  /\ NormIdle

Next ==
  \/ Arrive
  \/ getQuizzes
  \/ getQuizById
  \/ deleteQuiz
  \/ updateQuiz
  \/ createManualQuiz
  \/ generateQuiz
  \/ generateQuizCatch
  \/ generateQuizResume
  \/ Receive

Spec == Init /\ [][Next]_vars

(***************************************************************************)
(* The administrator's page: QuizTab, its EditQuizModal, and the requests  *)
(* they have under way, for the way a quiz is generated, opened and saved. *)
(* The modal's form is the title and the list of questions as a whole.     *)
(***************************************************************************)
\* the fetches the page has under way at once, and the quizzes it may store
MaxInFlight == 1
MaxSaved == 1

\* the administrator the page's token stands for
Admin == "admin1"

\* !s.trim()
Blank(s) == s \in {"", " "}

PromptTexts == {" ", "topic"}
ModalTitles == {"", "T"}

\* an exchange: the request, the response once there is one, and what the
\* continuation of the handler that sent it closed over
Exchange(request, closure) ==
  [request |-> request, response |-> NoFields, closure |-> closure]
Unserved(x) == DOMAIN x.response = {}

\* fetch rejects
NetworkFailure == [networkError |-> TRUE]
Failed(x) == Has(x.response, "networkError")

Without(seq, i) == SubSeq(seq, 1, i - 1) \o SubSeq(seq, i + 1, Len(seq))
Requests(n) == [i \in 1..Len(n) |-> n[i].request]

\* what the provider answers the page: a quiz, and a text without JSON
PreviewTexts == {<<"{", "wide", "}">>, <<Prose>>}

\* the server handles the request of exchange i
Serve(i, out) ==
  /\ store' = out.store
  /\ nextId' = out.nextId
  /\ net' = [net EXCEPT ![i].response = out.res]
  /\ UNCHANGED <<req, res, provider, tab, modal, alone>>

Serving(i, op) == Unserved(net[i]) /\ net[i].request.op = op

ServeGenerateQuiz ==
  \E i \in 1..Len(net) :
    /\ Serving(i, "generateQuiz")
    /\ \E apiKey \in BOOLEAN :
         LET r == net[i].request
             early == GenerateChecks(r, apiKey)
         IN  IF DOMAIN early # {}
               THEN Serve(i, GenerateQuiz(store, nextId, r, early))
               ELSE \/ Serve(i, GenerateQuiz(store, nextId, r, ProviderFailure))
                    \/ \E raw \in PreviewTexts :
                         Serve(i, GenerateQuiz(store, nextId, r, GenerateFromText(r, raw)))

ServeCreateManualQuiz ==
  \E i \in 1..Len(net) :
    /\ Serving(i, "createManualQuiz")
    /\ CreateManualQuiz(store, nextId, net[i].request).res.status = 201
         => nextId <= MaxSaved
    /\ Serve(i, CreateManualQuiz(store, nextId, net[i].request))

ServeUpdateQuiz ==
  \E i \in 1..Len(net) :
    /\ Serving(i, "updateQuiz")
    /\ Serve(i, UpdateQuiz(store, nextId, net[i].request))

ServeGetQuizzes ==
  \E i \in 1..Len(net) :
    /\ Serving(i, "getQuizzes")
    /\ Serve(i, GetQuizzes(store, nextId, net[i].request))

\* the request or its response is lost
NetworkError ==
  \E i \in 1..Len(net) :
    /\ ~Failed(net[i])
    /\ net' = [net EXCEPT ![i].response = NetworkFailure]
    /\ UNCHANGED <<store, nextId, req, res, provider, tab, modal, alone>>

service == <<store, nextId, req, res, provider>>

\* the page as it is mounted: the effect has called fetchQuizzes
TabInit ==
  [prompt |-> "", numberOfQuestions |-> Num(DefaultCount), isGenerating |-> FALSE,
   isLoading |-> TRUE, error |-> "", success |-> "",
   editModalOpen |-> FALSE, selectedQuiz |-> Null,
   assignModalOpen |-> FALSE, quizToAssign |-> Null,
   quizzes |-> <<>>]

GetQuizzesExchange == Exchange(Request("getQuizzes", Admin, 0, NoFields), NoFields)

\* fetchQuizzes up to its await
FetchQuizzes(t) == [t EXCEPT !.isLoading = TRUE, !.error = ""]

\* a dialog covers the page
PageFree == ~tab.editModalOpen /\ ~tab.assignModalOpen

\* the modal's effect on [quiz]: the form is set from the quiz, or emptied
QuizFields(quiz) ==
  [title |-> IF ~IsNull(quiz) /\ Has(quiz, "title") THEN quiz.title ELSE "",
   questions |-> IF ~IsNull(quiz) /\ Has(quiz, "questions") THEN quiz.questions ELSE <<>>,
   weightage |-> IF ~IsNull(quiz) /\ Has(quiz, "weightage") THEN quiz.weightage ELSE 0,
   weightageType |-> IF ~IsNull(quiz) /\ Has(quiz, "weightageType")
                       THEN quiz.weightageType ELSE "percentage"]

\* the modal is rendered only while editModalOpen, so opening it mounts it
MountModal(quiz) == QuizFields(quiz) @@ [error |-> "", isSaving |-> FALSE]
\* selectedQuiz changes under a mounted modal
ReinitModal(m, quiz) == QuizFields(quiz) @@ [error |-> m.error, isSaving |-> m.isSaving]
Mounted == DOMAIN modal # {}

\* the continuations of an unmounted modal set the state of no component
Orphan(n) ==
  [i \in 1..Len(n) |->
     IF Has(n[i].closure, "mounted") THEN [n[i] EXCEPT !.closure.mounted = FALSE]
     ELSE n[i]]

setPrompt ==
  /\ PageFree /\ ~tab.isGenerating
  /\ \E value \in PromptTexts : tab' = [tab EXCEPT !.prompt = value]
  /\ UNCHANGED <<modal, net>>
  /\ UNCHANGED <<service, alone>>

\* mutant: the button stays enabled while a quiz is being generated
handleGenerateQuizAgain ==
  /\ PageFree
  /\ IF Blank(tab.prompt)
       THEN /\ tab' = [tab EXCEPT
                         !.error = "Please enter a topic or prompt for quiz generation"]
            /\ UNCHANGED net
       ELSE LET validQuestionCount ==
                  QuestionCount(Field("numberOfQuestions", tab.numberOfQuestions))
                body == [prompt |-> tab.prompt, quizType |-> "mcq",
                         numberOfQuestions |-> Num(validQuestionCount)]
            IN  /\ tab' = [tab EXCEPT !.numberOfQuestions = Num(validQuestionCount),
                                      !.isGenerating = TRUE, !.error = "", !.success = ""]
                /\ net' = Append(net, Exchange(Request("generateQuiz", Admin, 0, body),
                                               NoFields))
  /\ UNCHANGED modal
  /\ UNCHANGED <<service, alone>>

\* handleGenerateQuiz up to its await; Enter in the prompt field calls it too. The
\* button and the field are disabled while isGenerating, so one request is under way
handleGenerateQuiz ==
  /\ PageFree /\ ~tab.isGenerating
  /\ IF Blank(tab.prompt)
       THEN /\ tab' = [tab EXCEPT
                         !.error = "Please enter a topic or prompt for quiz generation"]
            /\ UNCHANGED net
       ELSE LET validQuestionCount ==
                  QuestionCount(Field("numberOfQuestions", tab.numberOfQuestions))
                body == [prompt |-> tab.prompt, quizType |-> "mcq",
                         numberOfQuestions |-> Num(validQuestionCount)]
            IN  /\ tab' = [tab EXCEPT !.numberOfQuestions = Num(validQuestionCount),
                                      !.isGenerating = TRUE, !.error = "", !.success = ""]
                /\ net' = Append(net, Exchange(Request("generateQuiz", Admin, 0, body),
                                               NoFields))
  /\ UNCHANGED modal
  /\ UNCHANGED <<service, alone>>

\* Create Quiz Manually, Create Your First Quiz
createQuizManually ==
  /\ PageFree
  /\ tab' = [tab EXCEPT !.selectedQuiz = Null, !.editModalOpen = TRUE]
  /\ modal' = MountModal(Null)
  /\ UNCHANGED net
  /\ UNCHANGED <<service, alone>>

handleEditQuiz ==
  /\ PageFree
  /\ \E i \in 1..Len(tab.quizzes) :
       /\ tab' = [tab EXCEPT !.selectedQuiz = tab.quizzes[i], !.editModalOpen = TRUE]
       /\ modal' = MountModal(tab.quizzes[i])
  /\ UNCHANGED net
  /\ UNCHANGED <<service, alone>>

\* the modal's onClose: Cancel, the backdrop, Escape
onClose ==
  /\ tab.editModalOpen
  /\ tab' = [tab EXCEPT !.editModalOpen = FALSE, !.selectedQuiz = Null]
  /\ modal' = NoFields
  /\ net' = Orphan(net)
  /\ UNCHANGED <<service, alone>>

\* the title field stays enabled while the quiz is being saved
setTitle ==
  /\ Mounted
  /\ \E value \in ModalTitles : modal' = [modal EXCEPT !.title = value]
  /\ UNCHANGED <<tab, net>>
  /\ UNCHANGED <<service, alone>>

\* q.text.trim() of a question that has no text
TypeError == "TypeError"

\* mutant: the answer of an mcq question is not looked up in its options
QuestionErrorAnyAnswer(q) ==
  IF ~Has(q, "text") THEN TypeError
  ELSE IF Blank(q.text) THEN "Question text is required"
  ELSE IF ~Has(q, "answer") THEN "Answer is required"
  ELSE IF Blank(q.answer) THEN "Answer is required"
  ELSE IF q.type = "mcq" /\ (\E k \in 1..Len(q.options) : Blank(q.options[k]))
    THEN "All MCQ options must be filled"
  ELSE IF q.type = "true_false" /\ q.answer \notin {"True", "False"}
    THEN "True/False answer must be \"True\" or \"False\""
  ELSE ""

\* validateQuiz for one question: the error, "" when there is none, and TypeError
\* when it throws
QuestionError(q) ==
  IF ~Has(q, "text") THEN TypeError
  ELSE IF Blank(q.text) THEN "Question text is required"
  ELSE IF ~Has(q, "answer") THEN "Answer is required"
  ELSE IF Blank(q.answer) THEN "Answer is required"
  ELSE IF q.type = "mcq" /\ (\E k \in 1..Len(q.options) : Blank(q.options[k]))
    THEN "All MCQ options must be filled"
  ELSE IF q.type = "mcq" /\ ~Includes(q.options, q.answer)
    THEN "Answer must match one of the options exactly"
  ELSE IF q.type = "true_false" /\ q.answer \notin {"True", "False"}
    THEN "True/False answer must be \"True\" or \"False\""
  ELSE ""

\* validateQuiz: the error it sets, "" when it returns true, and TypeError when it
\* throws before it returns
ValidateQuiz(m) ==
  IF Blank(m.title) THEN "Quiz title is required"
  ELSE IF Len(m.questions) = 0 THEN "At least one question is required"
  ELSE IF m.weightageType = "percentage" /\ m.weightage < 0
    THEN "Weightage percentage must be between 0 and 100."
  ELSE IF m.weightageType = "percentage" /\ m.weightage > 100
    THEN "Weightage percentage must be between 0 and 100."
  ELSE IF m.weightageType = "marks" /\ m.weightage < 0
    THEN "Weightage marks must be zero or a positive number."
  ELSE LET wrong == {i \in 1..Len(m.questions) : QuestionError(m.questions[i]) # ""}
       IN  IF wrong = {} THEN ""
           ELSE LET i == CHOOSE j \in wrong : \A k \in wrong : j <= k
                IN  IF QuestionError(m.questions[i]) = TypeError THEN TypeError
                    ELSE "Question " \o ToString(i) \o ": "
                         \o QuestionError(m.questions[i])

\* quiz && quiz._id
IsExistingQuiz(quiz) == ~IsNull(quiz) /\ Has(quiz, "_id")

\* the request handleSave sends
SaveRequest(m, quiz) ==
  LET body == [title |-> m.title, timeLimit |-> 10, questions |-> m.questions,
               weightage |-> m.weightage, weightageType |-> m.weightageType]
  IN  IF IsExistingQuiz(quiz) THEN Request("updateQuiz", Admin, quiz._id, body)
      ELSE Request("createManualQuiz", Admin, 0, body)

\* handleSave up to its await
handleSave ==
  /\ Mounted /\ ~modal.isSaving
  /\ IF ValidateQuiz(modal) = TypeError
       THEN /\ modal' = [modal EXCEPT !.error = ""]
            /\ UNCHANGED net
       ELSE IF ValidateQuiz(modal) # ""
       THEN /\ modal' = [modal EXCEPT !.error = ValidateQuiz(modal)]
            /\ UNCHANGED net
       ELSE /\ Len(net) < MaxInFlight
            /\ modal' = [modal EXCEPT !.error = "", !.isSaving = TRUE]
            /\ net' = Append(net, Exchange(SaveRequest(modal, tab.selectedQuiz),
                                           [selectedQuiz |-> tab.selectedQuiz,
                                            mounted |-> TRUE]))
  /\ UNCHANGED tab
  /\ UNCHANGED <<service, alone>>

Answer(i, ops) == net[i].request.op \in ops /\ ~Unserved(net[i])

\* mutant: a generated quiz is sent to be created as soon as it arrives
handleGenerateQuizDoneSaving ==
  \E i \in 1..Len(net) :
    /\ Answer(i, {"generateQuiz"})
    /\ LET result == net[i].response
           rest == Without(net, i)
       IN  IF Failed(net[i])
             THEN /\ tab' = [tab EXCEPT !.isGenerating = FALSE,
                    !.error = "Failed to generate quiz. Please check your internet connection and API key."]
                  /\ modal' = modal
                  /\ net' = rest
           ELSE IF result.success
             THEN /\ tab' = [tab EXCEPT !.isGenerating = FALSE, !.prompt = "",
                               !.success = "Quiz generated! Review and edit before saving."]
                  /\ modal' = modal
                  /\ net' = Append(rest, Exchange(Request("createManualQuiz", Admin, 0,
                                                          result.data), NoFields))
           ELSE /\ tab' = [tab EXCEPT !.isGenerating = FALSE, !.error = result.message]
                /\ modal' = modal
                /\ net' = rest
    /\ UNCHANGED <<service, alone>>

\* handleGenerateQuiz from the response on
handleGenerateQuizDone ==
  \E i \in 1..Len(net) :
    /\ Answer(i, {"generateQuiz"})
    /\ LET result == net[i].response
           rest == Without(net, i)
       IN  IF Failed(net[i])
             THEN /\ tab' = [tab EXCEPT !.isGenerating = FALSE,
                    !.error = "Failed to generate quiz. Please check your internet connection and API key."]
                  /\ modal' = modal
                  /\ net' = rest
           ELSE IF result.success
             THEN /\ tab' = [tab EXCEPT !.isGenerating = FALSE, !.prompt = "",
                               !.success = "Quiz generated! Review and edit before saving.",
                               !.selectedQuiz = result.data, !.editModalOpen = TRUE]
                  /\ modal' = IF Mounted THEN ReinitModal(modal, result.data)
                              ELSE MountModal(result.data)
                  /\ net' = rest
           ELSE /\ tab' = [tab EXCEPT !.isGenerating = FALSE, !.error = result.message]
                /\ modal' = modal
                /\ net' = rest
    /\ UNCHANGED <<service, alone>>

\* fetchQuizzes from the response on
fetchQuizzesDone ==
  \E i \in 1..Len(net) :
    /\ Answer(i, {"getQuizzes"})
    /\ LET result == net[i].response
       IN  tab' = IF Failed(net[i])
                    THEN [tab EXCEPT !.isLoading = FALSE, !.error = "Failed to load quizzes"]
                  ELSE IF result.success
                    THEN [tab EXCEPT !.isLoading = FALSE, !.quizzes = result.data]
                  ELSE [tab EXCEPT !.isLoading = FALSE, !.error = result.message]
    /\ net' = Without(net, i)
    /\ UNCHANGED modal
    /\ UNCHANGED <<service, alone>>

\* the page after handleQuizSaved(savedQuiz), called by a handleSave that saw quiz
HandleQuizSaved(t, savedQuiz, quiz) ==
  LET closed == [FetchQuizzes(t) EXCEPT !.editModalOpen = FALSE, !.selectedQuiz = Null]
  IN  IF ~IsExistingQuiz(quiz) /\ IsExistingQuiz(savedQuiz)
        THEN [closed EXCEPT
                !.success = "Quiz created successfully! Now assign it to a class.",
                !.quizToAssign = savedQuiz, !.assignModalOpen = TRUE]
        ELSE [closed EXCEPT !.success = "Quiz updated successfully"]

\* handleSave from the response on
handleSaveDone ==
  \E i \in 1..Len(net) :
    /\ Answer(i, {"createManualQuiz", "updateQuiz"})
    /\ LET result == net[i].response
           quiz == net[i].closure.selectedQuiz
           rest == Without(net, i)
       IN  IF ~Failed(net[i]) /\ result.success
             THEN /\ tab' = HandleQuizSaved(tab, IF Has(result, "data") THEN result.data
                                                 ELSE quiz, quiz)
                  /\ modal' = NoFields
                  /\ net' = Append(Orphan(rest), GetQuizzesExchange)
             ELSE /\ modal' = IF net[i].closure.mounted
                                THEN [modal EXCEPT
                                        !.isSaving = FALSE,
                                        !.error = IF Failed(net[i])
                                                    THEN "Failed to save quiz. Please try again."
                                                    ELSE result.message]
                                ELSE modal
                  /\ net' = rest
                  /\ UNCHANGED tab
    /\ UNCHANGED <<service, alone>>

\* the assign modal's onClose
closeAssignModal ==
  /\ tab.assignModalOpen
  /\ tab' = [tab EXCEPT !.assignModalOpen = FALSE, !.quizToAssign = Null]
  /\ UNCHANGED <<modal, net>>
  /\ UNCHANGED <<service, alone>>

handleAssignSuccess ==
  /\ tab.assignModalOpen
  /\ tab' = [tab EXCEPT !.success = "Quiz assigned successfully",
                        !.assignModalOpen = FALSE, !.quizToAssign = Null]
  /\ UNCHANGED <<modal, net>>
  /\ UNCHANGED <<service, alone>>

\* the page is mounted over an empty store
UIInit ==
  /\ ServiceInit
  /\ tab = TabInit
  /\ modal = NoFields
  /\ net = <<GetQuizzesExchange>>
  /\ NormIdle

UINext ==
  \/ setPrompt
  \/ handleGenerateQuiz
  \/ ServeGenerateQuiz
  \/ handleGenerateQuizDone
  \/ createQuizManually
  \/ handleEditQuiz
  \/ onClose
  \/ setTitle
  \/ handleSave
  \/ ServeCreateManualQuiz
  \/ ServeUpdateQuiz
  \/ handleSaveDone
  \/ ServeGetQuizzes
  \/ fetchQuizzesDone
  \/ closeAssignModal
  \/ handleAssignSuccess
  \/ NetworkError

SpecUI == UIInit /\ [][UINext]_vars

(***************************************************************************)
(* The page's generation of a quiz alone, with its fetch answered in the   *)
(* end and its continuation run once the fetch is settled.                 *)
(***************************************************************************)
GenNext ==
  \/ setPrompt
  \/ handleGenerateQuiz
  \/ ServeGenerateQuiz
  \/ handleGenerateQuizDone
  \/ createQuizManually
  \/ onClose
  \/ setTitle
  \/ ServeGetQuizzes
  \/ fetchQuizzesDone
  \/ NetworkError

\* the server answers the request, and the handler goes on after its await
GenFairness ==
  /\ WF_vars(ServeGenerateQuiz)
  /\ WF_vars(handleGenerateQuizDone)

SpecGen == UIInit /\ [][GenNext]_vars /\ GenFairness

(***************************************************************************)
(* The questions of the edit modal. The handlers copy the list and share   *)
(* the question objects and their arrays with the list they copied, and    *)
(* some assign into an object or an array in place; the callback of a file *)
(* reader works on the list of the render in which the image was chosen.   *)
(* So the objects and the arrays are kept by identity.                     *)
(***************************************************************************)
\* the edits made to the questions of one quiz
MaxEdits == 3

\* event.target.result of the reader, and an index of an array nothing was assigned to
Image == "data:image"
Hole == "<empty>"

\* what is typed into a question's text, an option, and a short answer
EditTexts == {"", "q"}
OptionTexts == {"", "b"}
ShortAnswers == {"", "s"}
QuestionTypes == {"mcq", "true_false", "short_answer"}

\* a quiz as generateQuiz returns it for the provider's JSON p
Preview(p) ==
  [title |-> Payloads[p].title, questions |-> ValidatedQuestions(Payloads[p]),
   timeLimit |-> 10]

\* the quizzes the modal is opened on: none (Create Quiz Manually) and generated
\* previews, whose questions carry no images
EditedQuizzes == {Null, Preview("good"), Preview("two")}

ArrayFields == {"options", "optionImages"}
NewId(f) == Cardinality(DOMAIN f) + 1
Alloc(f, v) == f @@ (NewId(f) :> v)

\* array[index] = value, for an index from 1: the array grows to hold it
SetAt(array, index, value) ==
  [j \in 1..Max2(Len(array), index) |->
     IF j = index THEN value ELSE IF j <= Len(array) THEN array[j] ELSE Hole]

\* a question object with its arrays in place, as it is rendered and sent
ViewQuestion(e, o) ==
  [f \in DOMAIN e.objects[o] |->
     IF f \in ArrayFields THEN e.arrays[e.objects[o][f]] ELSE e.objects[o][f]]
ViewQuestions(e, list) == [i \in 1..Len(list) |-> ViewQuestion(e, list[i])]

\* a new question object q, with new arrays, at the end of the list
StoreQuestion(e, q) ==
  LET n == Cardinality(DOMAIN e.arrays)
      optionsId == n + 1
      imagesId == IF Has(q, "options") THEN n + 2 ELSE n + 1
      withOptions == IF Has(q, "options") THEN e.arrays @@ (optionsId :> q.options)
                     ELSE e.arrays
      withImages == IF Has(q, "optionImages")
                      THEN withOptions @@ (imagesId :> q.optionImages)
                    ELSE withOptions
      object == [f \in DOMAIN q |->
                   IF f = "options" THEN optionsId
                   ELSE IF f = "optionImages" THEN imagesId
                   ELSE q[f]]
  IN  [e EXCEPT !.arrays = withImages,
                !.objects = Alloc(e.objects, object),
                !.questions = Append(e.questions, NewId(e.objects))]

\* setQuestions(quiz.questions || []): the objects of the quiz
RECURSIVE LoadQuestions(_, _)
LoadQuestions(e, list) ==
  IF list = <<>> THEN e
  ELSE LoadQuestions(StoreQuestion(e, Head(list)), Tail(list))

NoQuestions == [questions |-> <<>>, objects |-> <<>>, arrays |-> <<>>, edits |-> 0]

\* setQuestions(newQuestions) and the render that follows, after one more edit
SetQuestions(e) ==
  /\ editor' = [e EXCEPT !.edits = editor.edits + 1]
  /\ modal' = [modal EXCEPT !.questions = ViewQuestions(e, e.questions)]

Editing == Mounted /\ editor.edits < MaxEdits
Shown(index) == modal.questions[index]
Truthy(image) == image \notin {"", Hole}

handleAddQuestion ==
  /\ Editing
  /\ SetQuestions(StoreQuestion(editor,
       [text |-> "", type |-> "mcq", options |-> <<"", "", "", "">>, answer |-> "",
        questionImage |-> "", optionImages |-> <<"", "", "", "">>]))
  /\ UNCHANGED <<service, tab, net, candidate, validatedQuestions, count, readers>>

handleDeleteQuestion ==
  /\ Editing
  /\ \E index \in 1..Len(editor.questions) :
       SetQuestions([editor EXCEPT !.questions = Without(editor.questions, index)])
  /\ UNCHANGED <<service, tab, net, candidate, validatedQuestions, count, readers>>

\* the arrows: up is disabled on the first question and down on the last
handleMoveQuestion ==
  /\ Editing
  /\ \E index \in 1..Len(editor.questions), targetIndex \in 1..Len(editor.questions) :
       /\ targetIndex \in {index - 1, index + 1}
       /\ SetQuestions([editor EXCEPT
            !.questions = [editor.questions EXCEPT ![index] = editor.questions[targetIndex],
                                                   ![targetIndex] = editor.questions[index]]])
  /\ UNCHANGED <<service, tab, net, candidate, validatedQuestions, count, readers>>

\* the options, the option images and the answer a question gets with a type
TypeOptions(type) ==
  IF type = "mcq" THEN <<"", "", "", "">>
  ELSE IF type = "true_false" THEN <<"True", "False">>
  ELSE <<>>
TypeImages(type) ==
  IF type = "mcq" THEN <<"", "", "", "">>
  ELSE IF type = "true_false" THEN <<"", "">>
  ELSE <<>>
TypeAnswer(type, object) ==
  IF type = "true_false"
    THEN IF Has(object, "answer") /\ object.answer \in {"True", "False"}
           THEN Field("answer", object.answer) ELSE Field("answer", "")
  ELSE NoFields

\* handleQuestionChange(index, field, value): the question is copied, and with a
\* type it gets new arrays
QuestionChange(e, index, field, value) ==
  LET old == e.objects[e.questions[index]]
      n == Cardinality(DOMAIN e.arrays)
      copy == IF field = "type"
                THEN TypeAnswer(value, old)
                     @@ [type |-> value, options |-> n + 1, optionImages |-> n + 2] @@ old
                ELSE (field :> value) @@ old
      arrays == IF field = "type"
                  THEN e.arrays @@ ((n + 1) :> TypeOptions(value))
                       @@ ((n + 2) :> TypeImages(value))
                  ELSE e.arrays
  IN  [e EXCEPT !.arrays = arrays,
                !.objects = Alloc(e.objects, copy),
                !.questions[index] = NewId(e.objects)]

\* the values the fields of question index offer: text typed, another type chosen,
\* an option chosen as the answer or a short answer typed
Changes(index) ==
  LET q == Shown(index)
  IN  {<<"text", v>> : v \in EditTexts \ {q.text}}
      \cup {<<"type", v>> : v \in QuestionTypes \ {q.type}}
      \cup {<<"answer", v>> :
              v \in (IF q.type = "short_answer" THEN ShortAnswers
                     ELSE {q.options[k] : k \in 1..Len(q.options)}) \ {q.answer}}

handleQuestionChange ==
  /\ Editing
  /\ \E index \in 1..Len(editor.questions) : \E change \in Changes(index) :
       SetQuestions(QuestionChange(editor, index, change[1], change[2]))
  /\ UNCHANGED <<service, tab, net, candidate, validatedQuestions, count, readers>>

\* newQuestions[qIndex].options[optIndex] = value: the array is assigned in place;
\* the field is rendered for mcq questions and read-only for true_false ones
handleOptionChange ==
  /\ Editing
  /\ \E qIndex \in 1..Len(editor.questions) :
       /\ Shown(qIndex).type = "mcq"
       /\ \E optIndex \in 1..Len(Shown(qIndex).options) :
          \E value \in OptionTexts \ {Shown(qIndex).options[optIndex]} :
            SetQuestions([editor EXCEPT
              !.arrays[editor.objects[editor.questions[qIndex]].options][optIndex] = value])
  /\ UNCHANGED <<service, tab, net, candidate, validatedQuestions, count, readers>>

\* the images of question qIndex that can be added: its own, and for an mcq
\* question one for each option that has none
Addable(qIndex) ==
  LET q == Shown(qIndex)
  IN  (IF Has(q, "questionImage") /\ Truthy(q.questionImage) THEN {}
       ELSE {<<"questionImage", 0>>})
      \cup (IF q.type # "mcq" THEN {}
            ELSE {<<"optionImage", k>> : k \in
                    {k \in 1..Len(q.options) :
                       ~(/\ Has(q, "optionImages") /\ k <= Len(q.optionImages)
                         /\ Truthy(q.optionImages[k]))}})
Removable(qIndex) ==
  LET q == Shown(qIndex)
  IN  (IF Has(q, "questionImage") /\ Truthy(q.questionImage)
         THEN {<<"questionImage", 0>>} ELSE {})
      \cup (IF q.type # "mcq" \/ ~Has(q, "optionImages") THEN {}
            ELSE {<<"optionImage", k>> : k \in
                    {k \in 1..Min2(Len(q.options), Len(q.optionImages)) :
                       Truthy(q.optionImages[k])}})

\* handleImageUpload up to input.onchange: a file is chosen; one above 2MB is
\* refused, any other is given to a reader, whose callback keeps the questions of
\* this render
handleImageUpload ==
  /\ Editing
  /\ \E qIndex \in 1..Len(editor.questions) : \E image \in Addable(qIndex) :
       \/ /\ modal' = [modal EXCEPT !.error = "Image size must be less than 2MB"]
          /\ UNCHANGED readers
       \/ /\ readers' = Append(readers, [questions |-> editor.questions, qIndex |-> qIndex,
                                         field |-> image[1], optIndex |-> image[2]])
          /\ UNCHANGED modal
  /\ editor' = [editor EXCEPT !.edits = @ + 1]
  /\ UNCHANGED <<service, tab, net, candidate, validatedQuestions, count>>

\* the questions after reader.onload of reader r: the image is assigned into the
\* question object of the list r kept, and that list is set
Onload(e, r) ==
  LET o == r.questions[r.qIndex]
      object == e.objects[o]
      n == Cardinality(DOMAIN e.arrays)
  IN  IF r.field = "questionImage"
        THEN [e EXCEPT !.objects[o] = [questionImage |-> Image] @@ object,
                       !.questions = r.questions]
      ELSE IF ~Has(object, "optionImages")
        THEN [e EXCEPT !.objects[o] = [optionImages |-> n + 1] @@ object,
                       !.arrays = e.arrays @@ ((n + 1) :> SetAt(<<>>, r.optIndex, Image)),
                       !.questions = r.questions]
      ELSE [e EXCEPT !.arrays[object.optionImages] = SetAt(@, r.optIndex, Image),
                     !.questions = r.questions]

readerOnload ==
  /\ Mounted
  /\ \E k \in 1..Len(readers) :
       /\ readers' = Without(readers, k)
       /\ LET e == Onload(editor, readers[k])
          IN  /\ editor' = e
              /\ modal' = [modal EXCEPT !.questions = ViewQuestions(e, e.questions)]
  /\ UNCHANGED <<service, tab, net, candidate, validatedQuestions, count>>

\* handleRemoveImage: the image is assigned '' in place
handleRemoveImage ==
  /\ Editing
  /\ \E qIndex \in 1..Len(editor.questions) : \E image \in Removable(qIndex) :
       LET o == editor.questions[qIndex]
       IN  SetQuestions(IF image[1] = "questionImage"
                          THEN [editor EXCEPT !.objects[o].questionImage = ""]
                          ELSE [editor EXCEPT
                                  !.arrays[editor.objects[o].optionImages][image[2]] = ""])
  /\ UNCHANGED <<service, tab, net, candidate, validatedQuestions, count, readers>>

\* the modal is open on a quiz
EditInit ==
  /\ ServiceInit
  /\ \E quiz \in EditedQuizzes :
       /\ tab = [TabInit EXCEPT !.isLoading = FALSE, !.selectedQuiz = quiz,
                                !.editModalOpen = TRUE]
       /\ modal = MountModal(quiz)
       /\ editor = LoadQuestions(NoQuestions, QuizFields(quiz).questions)
  /\ net = <<>>
  /\ candidate = NoFields
  /\ validatedQuestions = Null
  /\ CountIdle
  /\ readers = <<>>

EditNext ==
  \/ handleAddQuestion
  \/ handleDeleteQuestion
  \/ handleMoveQuestion
  \/ handleQuestionChange
  \/ handleOptionChange
  \/ handleImageUpload
  \/ readerOnload
  \/ handleRemoveImage

SpecEdit == EditInit /\ [][EditNext]_vars

(***************************************************************************)
(* The save of the edit modal alone: the form holds any questions, the     *)
(* title and the weightage are edited, and no save is answered by the      *)
(* service, so that each one ends with a failed fetch.                     *)
(***************************************************************************)
\* what is typed into the weightage field, and the two weightage types
Weightages == {0 - 1, 0, 100, 101}
WeightageTypes == {"percentage", "marks"}

\* the question lists the form is opened with, valid ones and ones with each fault
\* validateQuiz looks for
SavedForms ==
  { <<>>,
    <<McqQuestion(<<"a", "b", "c", "d">>, "a")>>,
    <<McqQuestion(<<"a", "b", "c", "d">>, "z")>>,
    <<McqQuestion(<<"a", "", "c", "d">>, "a")>>,
    <<McqQuestion(<<"a", "b", "c", "d">>, " ")>>,
    <<TrueFalseQuestion(<<"True", "False">>, "False")>>,
    <<TrueFalseQuestion(<<"True", "False">>, "Yes")>>,
    <<SampleQuestion>>,
    <<ShortQuestion(<<>>, "")>>,
    <<[SampleQuestion EXCEPT !.text = " "]>>,
    <<[type |-> "short_answer", options |-> <<>>, answer |-> "a"]>>,
    <<[text |-> "q", type |-> "short_answer", options |-> <<>>]>>,
    <<SampleQuestion, McqQuestion(<<"a", "b", "c", "d">>, "d")>>,
    <<SampleQuestion, TrueFalseQuestion(<<"True", "False">>, "")>> }

\* the quizzes the modal is opened on: a new one and a stored one
SavedQuizzes(form) ==
  {Null, [title |-> "T", questions |-> form, timeLimit |-> 10],
   [_id |-> 1, title |-> "T", questions |-> form, timeLimit |-> 10, adminId |-> Admin]}

setWeightage ==
  /\ Mounted /\ ~modal.isSaving
  /\ \E value \in Weightages : modal' = [modal EXCEPT !.weightage = value]
  /\ UNCHANGED <<tab, net>>
  /\ UNCHANGED <<service, alone>>

setWeightageType ==
  /\ Mounted /\ ~modal.isSaving
  /\ \E value \in WeightageTypes : modal' = [modal EXCEPT !.weightageType = value]
  /\ UNCHANGED <<tab, net>>
  /\ UNCHANGED <<service, alone>>

SaveInit ==
  /\ ServiceInit
  /\ \E form \in SavedForms : \E quiz \in SavedQuizzes(form) :
       /\ tab = [TabInit EXCEPT !.isLoading = FALSE, !.selectedQuiz = quiz,
                                !.editModalOpen = TRUE]
       /\ modal = [MountModal(quiz) EXCEPT !.questions = form]
  /\ net = <<>>
  /\ NormIdle

SaveNext ==
  \/ setTitle
  \/ setWeightage
  \/ setWeightageType
  \/ handleSave
  \/ NetworkError
  \/ handleSaveDone

SpecSave == SaveInit /\ [][SaveNext]_vars

(***************************************************************************)
(* Two updateQuiz requests of the owner on one quiz, from two sessions:    *)
(* each handler runs up to its findById, and from there to its response,   *)
(* and the two may interleave.                                             *)
(***************************************************************************)
\* the quiz both sessions edit
SharedQuiz ==
  NewQuiz(1, [title |-> "T", questions |-> <<SampleQuestion>>, timeLimit |-> 10], Admin)

Loaded(x) == Has(x, "quiz")

\* updateQuiz up to the end of await Quiz.findById(id), and its checks
updateQuizFind ==
  \E i \in 1..Len(net) :
    /\ Unserved(net[i]) /\ ~Loaded(net[i])
    /\ LET r == net[i].request
       IN  IF ~Exists(store, r.id)
             THEN net' = [net EXCEPT ![i].response = Failure(404, "Quiz not found")]
           ELSE IF r.user = NoUser
             THEN net' = [net EXCEPT ![i].response = Failure(500, "Failed to update quiz")]
           ELSE IF NotOwner(store[r.id], r.user)
             THEN net' = [net EXCEPT
                            ![i].response = Failure(403, "Not authorized to edit this quiz")]
           ELSE net' = [net EXCEPT ![i] = [quiz |-> store[r.id]] @@ @]
    /\ UNCHANGED <<store, nextId, req, res, provider, tab, modal, alone>>

\* mutant: a save of a document that was saved since it was loaded is rejected
updateQuizSaveVersioned ==
  \E i \in 1..Len(net) :
    /\ Unserved(net[i]) /\ Loaded(net[i])
    /\ LET r == net[i].request
           quiz == ApplyPatch(net[i].quiz, r.body)
       IN  IF net[i].quiz # store[r.id]
             THEN /\ store' = store
                  /\ net' = [net EXCEPT ![i].response = Failure(500, "Failed to update quiz")]
             ELSE /\ store' = Replace(store, r.id, quiz)
                  /\ net' = [net EXCEPT ![i].response =
                               [status |-> 200, success |-> TRUE, data |-> quiz,
                                message |-> "Quiz updated successfully"]]
    /\ UNCHANGED <<nextId, req, res, provider, tab, modal, alone>>

\* updateQuiz from the assignments to the response: quiz.save() writes the loaded
\* document as it was assigned, or the assigned fields alone
updateQuizSave ==
  \E i \in 1..Len(net) :
    /\ Unserved(net[i]) /\ Loaded(net[i])
    /\ LET r == net[i].request
           quiz == ApplyPatch(net[i].quiz, r.body)
       IN  /\ \E saved \in {quiz, ApplyPatch(store[r.id], r.body)} :
                store' = Replace(store, r.id, saved)
           /\ net' = [net EXCEPT ![i].response =
                        [status |-> 200, success |-> TRUE, data |-> quiz,
                         message |-> "Quiz updated successfully"]]
    /\ UNCHANGED <<nextId, req, res, provider, tab, modal, alone>>

\* the store holds the quiz and both requests have arrived
RaceInit ==
  /\ store = Insert(NoFields, 1, SharedQuiz)
  /\ nextId = 2
  /\ req = NoFields
  /\ res = NoFields
  /\ provider = [state |-> "idle"]
  /\ tab = NoFields
  /\ modal = NoFields
  /\ \E first \in QuizBodies, second \in QuizBodies :
       net = <<Exchange(Request("updateQuiz", Admin, 1, first), NoFields),
               Exchange(Request("updateQuiz", Admin, 1, second), NoFields)>>
  /\ NormIdle

RaceNext ==
  \/ updateQuizFind
  \/ updateQuizSave

SpecRace == RaceInit /\ [][RaceNext]_vars

(***************************************************************************)
(* The normalizer alone: the map over aiJson.questions, applied to the     *)
(* candidate quizzes a parse may yield.                                    *)
(***************************************************************************)
MaxCandidateQuestions == 2

CandidateTypes == {"mcq", "true_false", "short_answer"}
CandidateOptions ==
  { <<>>, <<"a", "b">>, <<"a", "b", "c">>, <<"a", "b", "c", "d">>, <<"a", "b", "c", "d", "e">>,
    <<"True", "False">>, <<"Yes", "No">>, <<"True", "Maybe">> }
CandidateAnswers == {"a", "z", "True"}

\* the questions of a candidate: any type with any options and answer, and a
\* question that has no options
CandidateQuestions ==
  { [text |-> "q", type |-> type, options |-> options, answer |-> answer] :
      type \in CandidateTypes, options \in CandidateOptions, answer \in CandidateAnswers }
  \cup { [text |-> "q", type |-> "mcq", answer |-> "a"] }

Candidates ==
  { [title |-> "T", questions |-> questions] :
      questions \in UNION { [1..n -> CandidateQuestions] : n \in 1..MaxCandidateQuestions } }

\* aiJson.questions.map(...) returns
Normalize ==
  /\ IsNull(validatedQuestions)
  /\ ~NormalizeThrows(candidate)
  /\ validatedQuestions' = [returned |-> ValidatedQuestions(candidate)]
  /\ UNCHANGED <<service, ui, candidate, count, edit>>

\* aiJson.questions.map(...) throws
NormalizeError ==
  /\ IsNull(validatedQuestions)
  /\ NormalizeThrows(candidate)
  /\ validatedQuestions' = [thrown |-> "TypeError"]
  /\ UNCHANGED <<service, ui, candidate, count, edit>>

\* the map applied once more, to the questions it returned
NormalizeAgain ==
  /\ Has(validatedQuestions, "returned")
  /\ ~Has(validatedQuestions, "again")
  /\ validatedQuestions' =
       [returned |-> validatedQuestions.returned,
        again |-> ValidatedQuestions([questions |-> validatedQuestions.returned])]
  /\ UNCHANGED <<service, ui, candidate, count, edit>>

NormInit ==
  /\ ServiceInit
  /\ tab = NoFields
  /\ modal = NoFields
  /\ net = <<>>
  /\ candidate \in Candidates
  /\ validatedQuestions = Null
  /\ CountIdle
  /\ EditIdle

NormNext ==
  \/ Normalize
  \/ NormalizeError
  \/ NormalizeAgain

SpecNorm == NormInit /\ [][NormNext]_vars

(***************************************************************************)
(* The question count alone: the clamp of generateQuiz, applied to the     *)
(* numberOfQuestions a request body may carry.                             *)
(***************************************************************************)
MaxRequested == 55

\* a body without numberOfQuestions, with one that parseInt makes NaN of, and with
\* the integers from -MaxRequested to MaxRequested
RequestedBodies ==
  {NoFields, Field("numberOfQuestions", NotANumber)}
  \cup {Field("numberOfQuestions", Num(n)) : n \in (0 - MaxRequested)..MaxRequested}

\* const questionCount = Math.max(1, Math.min(50, parseInt(numberOfQuestions) || 5))
ComputeCount ==
  /\ effective = 0
  /\ effective' = QuestionCount(requested)
  /\ UNCHANGED <<service, ui, candidate, validatedQuestions, requested, edit>>

CountInit ==
  /\ ServiceInit
  /\ tab = NoFields
  /\ modal = NoFields
  /\ net = <<>>
  /\ candidate = NoFields
  /\ validatedQuestions = Null
  /\ requested \in RequestedBodies
  /\ effective = 0
  /\ EditIdle

CountNext == ComputeCount

SpecCount == CountInit /\ [][CountNext]_vars

(***************************************************************************)
(* Properties of the quiz service.                                         *)
(***************************************************************************)
Handling(op) == ~Idle /\ req.op = op

\* C1: getQuizById, updateQuiz and deleteQuiz on a stored quiz, made by a requester
\* identity that is not the quiz's owner, respond 403 Forbidden whatever the body is.
C1_NonOwnerForbidden ==
  [][ (/\ ~Idle
       /\ req.op \in {"getQuizById", "updateQuiz", "deleteQuiz"}
       /\ Exists(store, req.id)
       /\ req.user \in Users
       /\ req.user # store[req.id].adminId)
      => (res'.status = 403 /\ res'.success = FALSE) ]_vars

C1_Witness ==
  /\ Answered
  /\ res.status = 403
  /\ res.message = "Not authorized to delete this quiz"
  /\ DOMAIN store # {}

\* C2: the contents of a stored quiz change only in an updateQuiz of its owner, a
\* stored quiz disappears only in a deleteQuiz of its owner, and an update or
\* delete answered 403 or 404 leaves the whole store as it was.
C2_OnlyOwnerMutates ==
  [][ /\ \A id \in DOMAIN store :
           /\ id \notin DOMAIN store' =>
                /\ Handling("deleteQuiz")
                /\ req.id = id
                /\ req.user = store[id].adminId
           /\ (id \in DOMAIN store' /\ store'[id] # store[id]) =>
                /\ Handling("updateQuiz")
                /\ req.id = id
                /\ req.user = store[id].adminId
      /\ ((Handling("updateQuiz") \/ Handling("deleteQuiz")) /\ res'.status \in {403, 404})
           => store' = store ]_vars

C2_Witness ==
  /\ Answered
  /\ res.status = 200
  /\ Has(res, "message")
  /\ res.message = "Quiz deleted successfully"
  /\ DOMAIN store # {}
  /\ \E id \in DOMAIN store : store[id].title = ""

C5_ProviderFailureHasNoQuiz ==
  provider.state = "threw" =>
    /\ Answered
    /\ res.success = FALSE
    /\ DOMAIN res \cap {"data", "title", "questions", "preview"} = {}

C5_Witness ==
  /\ provider.state = "threw"
  /\ Answered
  /\ res.status = 500

\* C6: createManualQuiz with an empty title or without questions answers 400 and
\* stores nothing; with a title, a question and a requester identity it answers
\* 201 and stores exactly one new quiz, under a fresh identifier, owned by the
\* requester, with time limit 10 when the body has none.
C6_CreateValidation ==
  [][ Handling("createManualQuiz") =>
        LET body == req.body
            emptyTitle == Has(body, "title") /\ body.title = ""
            noQuestions == IF Has(body, "questions") THEN Len(body.questions) = 0 ELSE TRUE
            added == DOMAIN store' \ DOMAIN store
        IN  IF emptyTitle \/ noQuestions
              THEN res'.status = 400 /\ store' = store
            ELSE IF Has(body, "title") /\ req.user \in Users
              THEN /\ res'.status = 201
                   /\ Cardinality(added) = 1
                   /\ \A id \in DOMAIN store : id \in DOMAIN store' /\ store'[id] = store[id]
                   /\ \A id \in added :
                        /\ id >= nextId
                        /\ res'.data._id = id
                        /\ store'[id].adminId = req.user
                        /\ store'[id].title = body.title
                        /\ store'[id].questions = body.questions
                        /\ ~Has(body, "timeLimit") => store'[id].timeLimit = 10
            ELSE TRUE ]_vars

C6_Witness ==
  /\ Answered
  /\ res.status = 201
  /\ res.data.timeLimit = 10
  /\ res.data._id = 2
  /\ store[2] = res.data

\* C7: every quiz in the store has a non-empty title and at least one question.
C7_StoredQuizzesHaveTitleAndQuestions ==
  \A id \in DOMAIN store :
    /\ store[id].title # ""
    /\ Len(store[id].questions) >= 1

\* C8: every quiz in the store has a time limit that is a positive integer.
C8_StoredTimeLimitPositive ==
  \A id \in DOMAIN store :
    /\ store[id].timeLimit \in Int
    /\ store[id].timeLimit > 0

(***************************************************************************)
(* Properties of the page and of the normalizer.                           *)
(***************************************************************************)
SaveOps == {"createManualQuiz", "updateQuiz"}
Saves(n) == Cardinality({i \in 1..Len(n) : n[i].request.op \in SaveOps})

\* C4: on the page a create or update request is sent by handleSave only, so none
\* is sent between a successful generation and a press of Save; the modal's onClose
\* drops the preview and sends nothing; handleSave on a valid form for a quiz without
\* an identifier sends the create request; and the store gains a record only when a
\* create request that handleSave sent is served.
C4_PreviewStoredOnlyOnSave ==
  [][ /\ Saves(net') > Saves(net) => handleSave
      /\ onClose => /\ Requests(net') = Requests(net)
                    /\ store' = store
                    /\ modal' = NoFields
                    /\ IsNull(tab'.selectedQuiz)
      /\ (handleSave /\ ~IsExistingQuiz(tab.selectedQuiz) /\ ValidateQuiz(modal) = "")
           => /\ Len(net') = Len(net) + 1
              /\ net'[Len(net')].request.op = "createManualQuiz"
      /\ DOMAIN store' # DOMAIN store
           => \E i \in 1..Len(net) :
                /\ Serving(i, "createManualQuiz")
                /\ Has(net[i].closure, "selectedQuiz")
                /\ ~Unserved(net'[i])
                /\ net'[i].response.status = 201
                /\ store'[net'[i].response.data._id].questions
                     = net[i].request.body.questions ]_vars

\* a preview was generated, Save was pressed, and the quiz is in the store
C4_Witness ==
  \E i \in 1..Len(net) :
    /\ net[i].request.op = "createManualQuiz"
    /\ ~Unserved(net[i]) /\ ~Failed(net[i])
    /\ net[i].response.status = 201
    /\ ~IsExistingQuiz(net[i].closure.selectedQuiz)
    /\ ~IsNull(net[i].closure.selectedQuiz)
    /\ net[i].closure.selectedQuiz.questions = ValidatedQuestions(Payloads.wide)
    /\ Exists(store, net[i].response.data._id)

\* the Question of the data model
WellFormed(q) ==
  IF q.type = "mcq"
    THEN Len(q.options) = McqOptions /\ Includes(q.options, q.answer)
  ELSE IF q.type = "true_false"
    THEN q.options = <<"True", "False">> /\ Includes(q.options, q.answer)
  ELSE Has(q, "options") => Len(q.options) = 0

\* C9: every question of every quiz that the page stored, generated, normalized,
\* validated by the modal and created, is a Question of the data model: 4 options
\* for mcq, the options True, False for true_false, none for short_answer, and for
\* mcq and true_false an answer that is one of the options.
C9_StoredQuestionsWellFormed ==
  \A id \in DOMAIN store :
    \A i \in 1..Len(store[id].questions) : WellFormed(store[id].questions[i])

\* C10: every mcq question the normalizer returns has exactly 4 options and an
\* answer that is one of them.
C10_NormalizedMcqHasFourOptions ==
  Has(validatedQuestions, "returned") =>
    \A i \in 1..Len(validatedQuestions.returned) :
      LET q == validatedQuestions.returned[i]
      IN  q.type = "mcq" => Len(q.options) = McqOptions /\ Includes(q.options, q.answer)

\* C11: every true_false question the normalizer returns has the options True, False
\* in that order and an answer that is True or False.
C11_NormalizedTrueFalse ==
  Has(validatedQuestions, "returned") =>
    \A i \in 1..Len(validatedQuestions.returned) :
      LET q == validatedQuestions.returned[i]
      IN  q.type = "true_false" =>
            q.options = <<"True", "False">> /\ q.answer \in {"True", "False"}

\* C12: the normalizer is idempotent: applied to the questions it returned, it
\* returns the same questions, options and answers.
C12_NormalizerIdempotent ==
  Has(validatedQuestions, "again") => validatedQuestions.again = validatedQuestions.returned

\* C13: the question count generateQuiz uses is the requested count clamped to
\* 1..50: 1 for an integer below 1, 50 for an integer above 50, the integer itself
\* in between, and 5 when the request carries no number.
C13_CountClamped ==
  effective # 0 =>
    IF Has(requested, "numberOfQuestions") /\ IsNum(requested.numberOfQuestions)
      THEN LET n == requested.numberOfQuestions.num
           IN  effective = IF n < MinCount THEN MinCount
                           ELSE IF n > MaxCount THEN MaxCount ELSE n
      ELSE effective = DefaultCount

PlainMessage == "Quiz generated successfully. Review and save when ready."
ShortMessage(a, r) ==
  "AI generated " \o ToString(a) \o " questions (requested " \o ToString(r) \o "). "
  \o ToString(r - a) \o (IF r - a = 1 THEN " question" ELSE " questions")
  \o " short. You can add more questions manually or regenerate."
ExtraMessage(a, r) ==
  "AI generated " \o ToString(a) \o " questions (requested " \o ToString(r) \o "). "
  \o ToString(a - r) \o (IF a - r = 1 THEN " extra question" ELSE " extra questions")
  \o ". You can remove extras if needed."

\* C14: a successful generateQuiz with effective requested count R that returns A
\* questions carries the plain success message exactly when A = R, the message of
\* R - A questions short exactly when A < R, and the message of A - R extra
\* questions exactly when A > R; it returns as many questions as the provider's
\* JSON holds, never trimmed or padded to R.
C14_AdvisoryMessage ==
  [][ (/\ Handling("generateQuiz") /\ provider.state = "pending"
       /\ res'.success)
      => LET R == QuestionCount(req.body)
             A == Len(res'.data.questions)
         IN  /\ (A = R) <=> (res'.message = PlainMessage)
             /\ (A < R) <=> (res'.message = ShortMessage(A, R))
             /\ (A > R) <=> (res'.message = ExtraMessage(A, R))
             /\ \E raw \in ProviderTexts :
                  /\ res' = GenerateFromText(req, raw)
                  /\ Len(AiJson(raw).questions) = A ]_vars

\* one question was requested and two were returned, with the message of one extra
C14_Witness ==
  /\ Has(res, "preview")
  /\ Len(res.data.questions) = 2
  /\ res.message = ExtraMessage(2, 1)

\* C15: generateQuiz for a request without a requester identity responds 401
\* whatever the body is, an empty prompt included; for a request with an identity
\* and an empty prompt it responds 400.
C15_GenerateUnauthenticatedFirst ==
  [][ (Handling("generateQuiz") /\ provider.state = "idle")
      => /\ req.user = NoUser => res'.status = 401
         /\ (req.user # NoUser /\ Has(req.body, "prompt") /\ req.body.prompt = "")
              => res'.status = 400 ]_vars

PatchFields == {"title", "questions", "timeLimit"}

\* C16: a successful updateQuiz sets each of title, questions and timeLimit that the
\* body has to the body's value and leaves each one the body omits, the identifier,
\* the owner and every other quiz as they were.
C16_UpdateIsPartial ==
  [][ (Handling("updateQuiz") /\ res'.status = 200)
      => /\ DOMAIN store' = DOMAIN store
         /\ \A id \in DOMAIN store : id # req.id => store'[id] = store[id]
         /\ \A f \in PatchFields :
              store'[req.id][f] = IF Has(req.body, f) THEN req.body[f] ELSE store[req.id][f]
         /\ \A f \in DOMAIN store[req.id] \ PatchFields :
              store'[req.id][f] = store[req.id][f]
         /\ DOMAIN store'[req.id] = DOMAIN store[req.id]
         /\ res'.data = store'[req.id] ]_vars

\* an update that gave a time limit and kept the title
C16_Witness ==
  /\ Has(res, "message") /\ res.message = "Quiz updated successfully"
  /\ res.data.timeLimit = 0
  /\ res.data.title = "T"
  /\ store[res.data._id] = res.data

\* the identifier was assigned to a quiz that the store holds no more
Deleted(st, nid, id) == id < nid /\ ~Exists(st, id)

\* C17: deleted is terminal: a successful deleteQuiz leaves no record under the
\* identifier, a deleted identifier stays deleted whatever is done later, and
\* getQuizById, updateQuiz and deleteQuiz on it respond 404 for every requester.
C17_DeletedIsTerminal ==
  [][ /\ (Handling("deleteQuiz") /\ res'.status = 200) => Deleted(store', nextId', req.id)
      /\ \A id \in QuizIds : Deleted(store, nextId, id) => Deleted(store', nextId', id)
      /\ (/\ ~Idle
          /\ req.op \in {"getQuizById", "updateQuiz", "deleteQuiz"}
          /\ Deleted(store, nextId, req.id))
           => res'.status = 404 /\ res'.success = FALSE ]_vars

\* a quiz was deleted, another was created since, and the deleted one is asked for
C17_Witness ==
  /\ Handling("getQuizById")
  /\ Deleted(store, nextId, req.id)
  /\ \E id \in DOMAIN store : id > req.id

\* the quizzes of the store that the requester owns
Owned(st, user) == {id \in DOMAIN st : st[id].adminId = user}

\* C18: getQuizzes for an authenticated requester returns only quizzes of that
\* requester, the most recently created first; with a limit N it returns the N most
\* recently created (all of them when there are fewer), without a limit all of
\* them; it leaves the store as it was.
C18_ListOwnedNewestFirst ==
  [][ (Handling("getQuizzes") /\ req.user # NoUser)
      => LET data == res'.data
             listed == {data[i]._id : i \in 1..Len(data)}
             owned == Owned(store, req.user)
         IN  /\ res'.status = 200
             /\ store' = store /\ nextId' = nextId
             /\ listed \subseteq owned
             /\ Cardinality(listed) = Len(data)
             /\ \A i \in 1..Len(data) : data[i] = Summary(store[data[i]._id])
             /\ \A i, j \in 1..Len(data) : i < j => data[i].createdAt >= data[j].createdAt
             /\ \A id \in owned \ listed : \A i \in 1..Len(data) :
                  store[id].createdAt <= data[i].createdAt
             /\ Len(data) = IF Has(req.body, "limit") /\ IsNum(req.body.limit)
                              THEN Min2(req.body.limit.num, Cardinality(owned))
                              ELSE Cardinality(owned) ]_vars

\* s is the start of t
Prefix(s, t) == Len(s) <= Len(t) /\ s = SubSeq(t, 1, Len(s))

\* the failure of a text that holds no JSON: no quiz data, and an excerpt of at most
\* RawTextLimit characters from the start of from
Malformed(response, from) ==
  /\ response.status = 500 /\ response.success = FALSE
  /\ ~Has(response, "data") /\ ~Has(response, "preview")
  /\ response.message \in {"AI response did not contain valid JSON",
                           "AI response was not valid JSON."}
  /\ Has(response, "rawText")
  /\ Prefix(response.rawText, from)
  /\ Len(response.rawText) = Min2(Len(from), RawTextLimit)

Handlers ==
  {"generateQuiz", "getQuizzes", "getQuizById", "deleteQuiz", "updateQuiz", "createManualQuiz"}

\* a response body as the controller writes it: success tells a failure from a
\* success, and a failure carries a message
Structured(response) ==
  /\ Has(response, "status") /\ Has(response, "success")
  /\ response.success = (response.status < 400)
  /\ ~response.success =>
       /\ Has(response, "message")
       /\ DOMAIN response \subseteq {"status", "success", "message", "error", "rawText"}

\* the provider's JSON has no list of questions, or a question of it no list of options
NoLists(text) ==
  Includes(text, "noQuestions") \/ Includes(text, "noOptions") \/ text = <<"{", "}">>

\* C20: a step of any of the six handlers is taken for a request that has no
\* response so far and ends the request with one structured response, the one step
\* apart in which generateQuiz goes on to await the provider; a failure has success
\* false; a request without a requester identity, and a provider's JSON without a
\* list of questions or of options, end in such a failure.
C20_OneStructuredResponse ==
  [][ \A op \in Handlers : Handling(op)
        => /\ ~Answered
           /\ IF Answered'
                THEN /\ Idle'
                     /\ Structured(res')
                     /\ req.user = NoUser => ~res'.success
                     /\ (provider'.state = "returned" /\ NoLists(provider'.text))
                          => res'.status = 500 /\ ~res'.success
                ELSE /\ op = "generateQuiz"
                     /\ provider.state = "idle" /\ provider'.state = "pending"
                     /\ req' = req ]_vars

\* the provider's JSON had a question without options and the request failed
C20_Witness ==
  /\ provider.state = "returned"
  /\ Includes(provider.text, "noOptions")
  /\ Idle
  /\ res.status = 500 /\ res.success = FALSE
  /\ res.message = "Failed to generate quiz"

C23_NormalizerFrame ==
  Has(validatedQuestions, "returned") =>
    /\ Len(validatedQuestions.returned) = Len(candidate.questions)
    /\ \A i \in 1..Len(candidate.questions) :
         /\ validatedQuestions.returned[i].text = candidate.questions[i].text
         /\ validatedQuestions.returned[i].type = candidate.questions[i].type
         /\ candidate.questions[i].type = "short_answer"
              => validatedQuestions.returned[i] = candidate.questions[i]

\* a short_answer question whose answer is none of its options, after an mcq
\* question that was repaired
C23_Witness ==
  /\ Has(validatedQuestions, "returned")
  /\ Len(candidate.questions) = 2
  /\ candidate.questions[1].type = "mcq"
  /\ validatedQuestions.returned[1] # candidate.questions[1]
  /\ candidate.questions[2].type = "short_answer"
  /\ candidate.questions[2].options = <<"a", "b">>
  /\ candidate.questions[2].answer = "z"

\* C25: the owner of a stored quiz is the requester of the createManualQuiz request
\* that stored it, and stays so: no step changes the owner of a quiz the store
\* holds, whatever the body of the request is, and a quiz enters the store only by
\* createManualQuiz, owned by its requester.
C25_OwnerNeverChanges ==
  [][ /\ \A id \in DOMAIN store \cap DOMAIN store' : store'[id].adminId = store[id].adminId
      /\ \A id \in DOMAIN store' \ DOMAIN store :
           /\ Handling("createManualQuiz")
           /\ req.user # NoUser
           /\ store'[id].adminId = req.user ]_vars

\* the owner updates a quiz with a body that names another owner
C25_Witness ==
  /\ Handling("updateQuiz")
  /\ req.user = "admin1"
  /\ Exists(store, req.id) /\ store[req.id].adminId = "admin1"
  /\ Has(req.body, "adminId") /\ req.body.adminId = "admin2"
  /\ Has(req.body, "title")

SaveStep(i, s, t) == Unserved(s[i]) /\ Loaded(s[i]) /\ ~Unserved(t[i])

\* C21: two updateQuiz requests of the owner on one quiz, their findById and save
\* steps interleaved in any order, both succeed; each save leaves in the store the
\* value its request gave for every field the request set, so a field both set
\* holds the value of the save that ran last.
C21_LastWriteWins ==
  [][ \A i \in 1..Len(net) :
        /\ (Unserved(net[i]) /\ ~Unserved(net'[i])) => net'[i].response.status = 200
        /\ SaveStep(i, net, net')
             => \A f \in PatchFields \cap DOMAIN net[i].request.body :
                  store'[1][f] = net[i].request.body[f] ]_vars

\* both requests loaded the quiz before either saved, both gave a title, and the
\* title of the store is the second one's, whose save ran last
C21_Witness ==
  /\ Len(net) = 2
  /\ ~Unserved(net[1]) /\ ~Unserved(net[2])
  /\ net[1].quiz = SharedQuiz /\ net[2].quiz = SharedQuiz
  /\ Has(net[1].request.body, "title") /\ net[1].request.body.title = "T"
  /\ Has(net[2].request.body, "title") /\ net[2].request.body.title = ""
  /\ net[1].response.data.title = "T"
  /\ store[1].title = ""

\* the generate requests of the page that are under way
Generating == {i \in 1..Len(net) : net[i].request.op = "generateQuiz"}

\* the attempt ends with the edit modal open on the preview of the response
EndsInPreview(result) ==
  /\ tab'.editModalOpen /\ tab'.selectedQuiz = result.data
  /\ DOMAIN modal' # {} /\ modal'.questions = result.data.questions
  /\ tab'.error = tab.error

\* the attempt ends with an error message and has not opened the edit modal
EndsInError ==
  /\ tab'.error # ""
  /\ tab'.editModalOpen = tab.editModalOpen /\ tab'.selectedQuiz = tab.selectedQuiz
  /\ modal' = modal

WeightageFields == {"weightage", "weightageType"}

\* the weightage the edit modal shows when it is opened on the quiz id of the store
ShownWeightage(st, id) ==
  LET quiz == IF Exists(st, id) THEN st[id] ELSE Null
  IN  [f \in WeightageFields |-> QuizFields(quiz)[f]]

\* C26: a successful createManualQuiz or updateQuiz writes title, questions and
\* timeLimit, and on create the identifier, the owner and the time of creation, and
\* nothing else: whatever weightage and weightageType the body carries, the stored
\* quiz has the weightage fields it had before, and the edit modal opened on it
\* shows the weightage it showed before the save.
C26_WeightageNeverStored ==
  [][ ((Handling("createManualQuiz") \/ Handling("updateQuiz")) /\ res'.success)
      => LET id == res'.data._id
         IN  /\ \A f \in DOMAIN store'[id] \ PatchFields :
                  IF Exists(store, id)
                    THEN f \in DOMAIN store[id] /\ store'[id][f] = store[id][f]
                    ELSE f \in {"_id", "adminId", "createdAt"}
             /\ \A f \in WeightageFields \cap DOMAIN req.body :
                  ~Has(store'[id], f) \/ (Exists(store, id) /\ Has(store[id], f))
             /\ ShownWeightage(store', id) = ShownWeightage(store, id) ]_vars

\* a save of the edit modal, with its weightage, is about to be stored
C26_Witness ==
  /\ Handling("createManualQuiz")
  /\ req.user = Admin
  /\ ~CreateInvalid(req.body)
  /\ Has(req.body, "weightage") /\ req.body.weightage = 50
  /\ nextId = 2

\* C24: in the quiz editor, after any add-question, type-change, option-edit,
\* image-upload and image-remove, every mcq question that has a list of option images
\* has as many option images as options
C24_OptionImagesMatchOptions ==
  \A i \in 1..Len(editor.questions) :
    LET q == ViewQuestion(editor, editor.questions[i])
    IN  (q.type = "mcq" /\ Has(q, "optionImages"))
          => Len(q.optionImages) = Len(q.options)

\* question after is question before with the image of reader r set and nothing else
\* changed
ImageSet(before, after, r) ==
  IF r.field = "questionImage" THEN after = [questionImage |-> Image] @@ before
  ELSE /\ Has(after, "optionImages")
       /\ r.optIndex <= Len(after.optionImages)
       /\ after.optionImages[r.optIndex] = Image
       /\ \A image \in {SetAt(IF Has(before, "optionImages") THEN before.optionImages
                              ELSE <<>>, r.optIndex, Image)} :
            after = [optionImages |-> image] @@ before

\* C30: in the quiz editor, the load callback of a file reader changes only the
\* image it was started for: the questions after it are the questions just before
\* it with that one image set, whatever was edited since the file was chosen
C30_UploadKeepsInterveningEdits ==
  [][ \A k \in 1..Len(readers) :
        (Len(readers') < Len(readers) /\ readers' = Without(readers, k))
          => \A before \in {modal.questions} : \A after \in {modal'.questions} :
               /\ Len(after) = Len(before)
               /\ readers[k].qIndex <= Len(before)
               /\ \A i \in 1..Len(before) :
                    IF i = readers[k].qIndex
                      THEN ImageSet(before[i], after[i], readers[k])
                    ELSE after[i] = before[i] ]_vars

\* what the claim requires of a quiz that is sent
ValidQuestion(q) ==
  /\ Has(q, "text") /\ ~Blank(q.text)
  /\ Has(q, "answer") /\ ~Blank(q.answer)
  /\ q.type = "mcq" => /\ \A k \in 1..Len(q.options) : ~Blank(q.options[k])
                       /\ \E k \in 1..Len(q.options) : q.options[k] = q.answer
  /\ q.type = "true_false" => q.answer \in {"True", "False"}
ValidBody(body) ==
  /\ ~Blank(body.title)
  /\ Len(body.questions) >= 1
  /\ body.weightageType = "percentage" => (body.weightage >= 0 /\ body.weightage <= 100)
  /\ body.weightageType = "marks" => body.weightage >= 0
  /\ \A i \in 1..Len(body.questions) : ValidQuestion(body.questions[i])

====
